---- MODULE Spec2Model ----
(***************************************************************************)
(* A model of bluescan's BR/EDR scanner (src/bluescan/br_scan.py):         *)
(*   - BRScanner.inquiry: the inquiry session, its event handler, the      *)
(*     three inquiry-result decoders and the remote-name loop;             *)
(*   - BRScanner.scan_lmp_feature: the connection-oriented feature walk;   *)
(*   - pp_cod: the Class-of-Device decoder;                                *)
(*   - pp_ext_inquiry_rsp: the Extended Inquiry Response walker.           *)
(* Octets are integers 0..255, buffers are sequences of octets, a Python   *)
(* str obtained by bytes.decode() is the sequence of its code points.      *)
(***************************************************************************)
EXTENDS Integers, Sequences, FiniteSets, TLC

VARIABLES
    pc,            \* position of the running method
    scanned_dev,   \* self.scanned_dev
    hci_log,       \* requests issued to the HCI object, in order
    names,         \* the "addr : name" lines printed by the name loop
    out,           \* what the last inquiry_result_handler call printed
    exc,           \* the exception that ended the method ("none": none did)
    nev,           \* inquiry-result events delivered so far
    event,         \* the event buffer delivered last
    i,             \* loop index (name loop, extended-page loop)
    max_page_num,  \* scan_lmp_feature's max_page_num
    conn_handle,   \* conn_complete.conn_handle
    lmp_features7, \* read_remote_supported_features_complete.lmp_features[7]
    ext_pages,     \* what the page loop did with each page it requested
    cod_in,        \* argument of a stand-alone pp_cod call
    cod_res,       \* its outcome
    eir_in,        \* argument of a stand-alone pp_ext_inquiry_rsp call
    eir_res        \* its outcome

vars == <<pc, scanned_dev, hci_log, names, out, exc, nev, event, i,
          max_page_num, conn_handle, lmp_features7, ext_pages, cod_in,
          cod_res, eir_in, eir_res>>

----------------------------------------------------------------------------
(* Bounds of the model. *)

MaxEvents == 3
MaxPageNum == 2
MaxPrefixLen == 3

----------------------------------------------------------------------------
(* Octets and integers. *)

Pow2(k) == 2 ^ k

\* x >> k
Shr(x, k) == x \div Pow2(k)

\* (x >> k) & 1
Bit(x, k) == Shr(x, k) % 2

\* b[m:n] of Python, for 0 <= m and 0 <= n (0-based, end-exclusive, clamped)
Slice(b, m, n) ==
    LET hi == IF n < Len(b) THEN n ELSE Len(b)
    IN  IF m >= hi THEN <<>> ELSE SubSeq(b, m + 1, hi)

\* b[m:] of Python
SliceFrom(b, m) == Slice(b, m, Len(b))

\* b[::-1] of Python
Reverse(b) == [k \in 1..Len(b) |-> b[Len(b) + 1 - k]]

RECURSIVE FromBytesLittle(_)
\* int.from_bytes(b, byteorder='little'), unsigned
FromBytesLittle(b) ==
    IF b = <<>> THEN 0 ELSE b[1] + 256 * FromBytesLittle(Tail(b))

\* struct's 'b' format: one octet as a signed integer
SignedByte(b) == IF b >= 128 THEN b - 256 ELSE b

HexDigits == <<"0", "1", "2", "3", "4", "5", "6", "7",
               "8", "9", "A", "B", "C", "D", "E", "F">>

\* '%02X' % b
Hex02X(b) == HexDigits[(b \div 16) + 1] \o HexDigits[(b % 16) + 1]

RECURSIVE JoinColon(_)
\* ':'.join(parts)
JoinColon(parts) ==
    IF parts = <<>> THEN ""
    ELSE IF Len(parts) = 1 THEN parts[1]
    ELSE parts[1] \o ":" \o JoinColon(Tail(parts))

\* ':'.join(['%02X'%b for b in bd_addr[::-1]])
FormatBdAddr(bd_addr) ==
    LET r == Reverse(bd_addr)
    IN  JoinColon([k \in 1..Len(r) |-> Hex02X(r[k])])

----------------------------------------------------------------------------
(* pp_cod: the Class-of-Device decoder. *)

major_dev_clses ==
    (0 :> "Miscellaneous") @@ (1 :> "Computer") @@ (2 :> "Phone") @@
    (3 :> "Lan/Network Access Point") @@ (4 :> "Audio/Video") @@
    (5 :> "Peripheral (HID)") @@ (6 :> "Imaging") @@ (7 :> "Wearable") @@
    (8 :> "Toy") @@ (9 :> "Health") @@ (31 :> "Uncategorized")

\* The service-class lambdas of pp_cod, in the order their lines are printed.
ServiceClassBits ==
    << [name |-> "Information", bit |-> 23],
       [name |-> "Telephony", bit |-> 22],
       [name |-> "Audio", bit |-> 21],
       [name |-> "Object Transfer", bit |-> 20],
       [name |-> "Capturing", bit |-> 19],
       [name |-> "Rendering", bit |-> 18],
       [name |-> "Networking", bit |-> 17],
       [name |-> "Positioning", bit |-> 16],
       [name |-> "Limited Discoverable Mode", bit |-> 13] >>

\* A slip in the mask: cod & 0x000001, bit 1 is not looked at
CodFormatInvalidBit0(cod) == cod > 16777215 \/ cod % 2 # 0

\* cod > 0xFFFFFF or cod & 0x000003 != 0
CodFormatInvalid(cod) == cod > 16777215 \/ cod % 4 # 0

\* The service-class names printed for cod, as a set.
ServiceClasses(cod) ==
    { ServiceClassBits[k].name :
        k \in { j \in 1..Len(ServiceClassBits) :
                  Bit(cod, ServiceClassBits[j].bit) = 1 } }

\* A slip in the shift count: (cod>>7)&0x001F
MajorDevClsShift7(cod) == Shr(cod, 7) % 32

\* (cod>>8)&0x001F
MajorDevCls(cod) == Shr(cod, 8) % 32

\* The outcome of pp_cod(cod): the exception it raises ("none" when it
\* returns), whether the format check passed, the service classes printed,
\* the major device class bits and the name printed for them.
pp_cod(cod) ==
    IF CodFormatInvalid(cod)
    THEN [exc |-> "none", valid |-> FALSE, service |-> {},
          major_bits |-> -1, major |-> ""]
    ELSE LET m == MajorDevCls(cod)
         IN  IF m \in DOMAIN major_dev_clses
             THEN [exc |-> "none", valid |-> TRUE,
                   service |-> ServiceClasses(cod),
                   major_bits |-> m, major |-> major_dev_clses[m]]
             ELSE [exc |-> "KeyError", valid |-> TRUE,
                   service |-> ServiceClasses(cod),
                   major_bits |-> m, major |-> ""]

\* No pp_cod call was made.
NoCod == [exc |-> "none", valid |-> FALSE, service |-> {},
          major_bits |-> -1, major |-> ""]

----------------------------------------------------------------------------
(* pp_ext_inquiry_rsp: the Extended Inquiry Response walker. *)

\* GAP data types imported from .gap_data
COMPLETE_LIST_OF_16_BIT_SERVICE_CLASS_UUIDS == 3
COMPLETE_LIST_OF_32_BIT_SERVICE_CLASS_UUIDS == 5
COMPLETE_LIST_OF_128_BIT_SERVICE_CLASS_UUIDS == 7
SHORTENED_LOCAL_NAME == 8
COMPLETE_LOCAL_NAME == 9
TX_POWER_LEVEL == 10

\* The size of the ext_inq_rsp field ('240s')
EIR_LEN == 240

\* A UTF-8 continuation octet
Utf8Cont(x) == x \in 128..191

\* The number of leading octets of b below 0x80
AsciiRun(b) ==
    LET high == { k \in 1..Len(b) : b[k] >= 128 } IN
    IF high = {} THEN Len(b)
    ELSE (CHOOSE k \in high : \A j \in high : k <= j) - 1

RECURSIVE Utf8Decode(_, _)
\* bytes.decode(): [ok, cps], cps the code points decoded when ok, and
\* ok = FALSE where Python raises UnicodeDecodeError. A run of ASCII octets
\* is taken in one step.
Utf8Decode(b, acc) ==
    IF b = <<>> THEN [ok |-> TRUE, cps |-> acc]
    ELSE LET b1 == b[1] IN
      IF b1 < 128
      THEN LET n == AsciiRun(b) IN
           Utf8Decode(SliceFrom(b, n), acc \o SubSeq(b, 1, n))
      ELSE IF b1 \in 194..223 /\ Len(b) >= 2 /\ Utf8Cont(b[2])
      THEN Utf8Decode(SliceFrom(b, 2),
                      Append(acc, (b1 - 192) * 64 + (b[2] - 128)))
      ELSE IF /\ b1 \in 224..239 /\ Len(b) >= 3
              /\ Utf8Cont(b[2]) /\ Utf8Cont(b[3])
              /\ (b1 = 224 => b[2] >= 160)
              /\ (b1 = 237 => b[2] <= 159)
      THEN Utf8Decode(SliceFrom(b, 3),
                      Append(acc, (b1 - 224) * 4096 + (b[2] - 128) * 64
                                  + (b[3] - 128)))
      ELSE IF /\ b1 \in 240..244 /\ Len(b) >= 4
              /\ Utf8Cont(b[2]) /\ Utf8Cont(b[3]) /\ Utf8Cont(b[4])
              /\ (b1 = 240 => b[2] >= 144)
              /\ (b1 = 244 => b[2] <= 143)
      THEN Utf8Decode(SliceFrom(b, 4),
                      Append(acc, (b1 - 240) * 262144 + (b[2] - 128) * 4096
                                  + (b[3] - 128) * 64 + (b[4] - 128)))
      ELSE [ok |-> FALSE, cps |-> acc]

\* What one loop iteration prints for an element. kind says which branch
\* printed it; uuids are the UUIDs printed, each as its octets in the order
\* of its hex digits; val is the text (code points), the dBm number or the
\* raw payload.
EirShown(kind, uuids, val) == [kind |-> kind, uuids |-> uuids, val |-> val]

\* The three UUID-list branches, width = 2, 4 or 16 octets per UUID.
EirUuidList(length, data, width) ==
    IF length - 1 >= width
    THEN LET eir_data == SliceFrom(data, 1) IN
         IF Len(eir_data) % width # 0
         THEN EirShown("invalid", <<>>, <<Len(eir_data)>>)
         ELSE EirShown("uuids",
                       [k \in 1..(Len(eir_data) \div width) |->
                          Reverse(Slice(eir_data, (k - 1) * width, k * width))],
                       <<>>)
    ELSE EirShown("none", <<>>, <<>>)

\* str(int.from_bytes(data[1:], byteorder='little')) + ' dBm'.  The model's
\* integers hold payloads of up to 3 octets; a longer payload is reported
\* as kind "tx_wide" with the payload itself.
EirTxPower(data) ==
    LET p == SliceFrom(data, 1) IN
    IF Len(p) <= 3
    THEN EirShown("tx", <<>>, <<FromBytesLittle(p)>>)
    ELSE EirShown("tx_wide", <<>>, p)

\* The branch on data_type inside the loop: [exc, shown].
EirElement(length, data) ==
    LET data_type == data[1] IN
    IF data_type = COMPLETE_LIST_OF_16_BIT_SERVICE_CLASS_UUIDS
    THEN [exc |-> "none", shown |-> EirUuidList(length, data, 2)]
    ELSE IF data_type = COMPLETE_LIST_OF_32_BIT_SERVICE_CLASS_UUIDS
    THEN [exc |-> "none", shown |-> EirUuidList(length, data, 4)]
    ELSE IF data_type = COMPLETE_LIST_OF_128_BIT_SERVICE_CLASS_UUIDS
    THEN [exc |-> "none", shown |-> EirUuidList(length, data, 16)]
    ELSE IF data_type = SHORTENED_LOCAL_NAME \/ data_type = COMPLETE_LOCAL_NAME
    THEN LET d == Utf8Decode(SliceFrom(data, 1), <<>>) IN
         IF d.ok
         THEN [exc |-> "none", shown |-> EirShown("name", <<>>, d.cps)]
         ELSE [exc |-> "UnicodeDecodeError",
               shown |-> EirShown("error", <<>>, <<>>)]
    ELSE IF data_type = TX_POWER_LEVEL
    THEN [exc |-> "none", shown |-> EirTxPower(data)]
    ELSE [exc |-> "none", shown |-> EirShown("raw", <<>>, SliceFrom(data, 1))]

RECURSIVE EirWalkShortStep(_, _, _)
\* A slip in the advance: ext_inq_rsp = ext_inq_rsp[length:]
EirWalkShortStep(buf, pos, elems) ==
    IF pos >= Len(buf)
    THEN [exc |-> "IndexError", none |-> FALSE, elems |-> elems]
    ELSE IF buf[pos + 1] = 0
    THEN [exc |-> "none", none |-> FALSE, elems |-> elems]
    ELSE LET length == buf[pos + 1]
             data == Slice(buf, pos + 1, pos + 1 + length)
         IN  IF data = <<>>
             THEN [exc |-> "IndexError", none |-> FALSE, elems |-> elems]
             ELSE LET el == EirElement(length, data) IN
                  IF el.exc # "none"
                  THEN [exc |-> el.exc, none |-> FALSE, elems |-> elems]
                  ELSE EirWalkShortStep(buf, pos + length,
                               Append(elems,
                                      [type |-> data[1], length |-> length,
                                       payload |-> SliceFrom(data, 1),
                                       shown |-> el.shown]))

RECURSIVE EirWalk(_, _, _)
\* The while loop. ext_inq_rsp is buf[pos:]; elems are the elements printed
\* so far, each [type, length, payload, shown].
EirWalk(buf, pos, elems) ==
    IF pos >= Len(buf)
    THEN [exc |-> "IndexError", none |-> FALSE, elems |-> elems]
    ELSE IF buf[pos + 1] = 0
    THEN [exc |-> "none", none |-> FALSE, elems |-> elems]
    ELSE LET length == buf[pos + 1]
             data == Slice(buf, pos + 1, pos + 1 + length)
         IN  IF data = <<>>
             THEN [exc |-> "IndexError", none |-> FALSE, elems |-> elems]
             ELSE LET el == EirElement(length, data) IN
                  IF el.exc # "none"
                  THEN [exc |-> el.exc, none |-> FALSE, elems |-> elems]
                  ELSE EirWalk(buf, pos + 1 + length,
                               Append(elems,
                                      [type |-> data[1], length |-> length,
                                       payload |-> SliceFrom(data, 1),
                                       shown |-> el.shown]))

\* A slip in the first test: a leading zero octet is stepped over and the
\* loop starts at the second octet
PpExtInquiryRspSkipsZero(ext_inq_rsp) ==
    IF ext_inq_rsp = <<>>
    THEN [exc |-> "IndexError", none |-> FALSE, elems |-> <<>>]
    ELSE IF ext_inq_rsp[1] = 0
    THEN EirWalk(ext_inq_rsp, 1, <<>>)
    ELSE EirWalk(ext_inq_rsp, 0, <<>>)

\* The outcome of pp_ext_inquiry_rsp(ext_inq_rsp): the exception it raises
\* ("none" when it returns), whether it printed 'None', the elements printed.
pp_ext_inquiry_rsp(ext_inq_rsp) ==
    IF ext_inq_rsp = <<>>
    THEN [exc |-> "IndexError", none |-> FALSE, elems |-> <<>>]
    ELSE IF ext_inq_rsp[1] = 0
    THEN [exc |-> "none", none |-> TRUE, elems |-> <<>>]
    ELSE EirWalk(ext_inq_rsp, 0, <<>>)

\* No pp_ext_inquiry_rsp call was made.
NoEir == [exc |-> "none", none |-> FALSE, elems |-> <<>>]

----------------------------------------------------------------------------
(* The three inquiry-result decoders. *)

\* Event codes of bthci.events
HCI_Inquiry_Result_evt_code == 2
HCI_Inquiry_Result_with_RSSI_evt_code == 34
HCI_Extended_Inquiry_Result_evt_code == 47

\* struct.calcsize of the three formats
SizeBasic == 14
SizeRssi == 14
SizeExtended == 254

\* A slip in the membership test: only the address recorded last is compared
AlreadyScannedLastOnly(bd_addr, dev) ==
    Len(dev) > 0 /\ dev[Len(dev)] = bd_addr

\* bd_addr in self.scanned_dev
AlreadyScanned(bd_addr, dev) == \E k \in 1..Len(dev) : dev[k] = bd_addr

\* What a decoder call printed; shown = FALSE when it printed no record.
NoOut == [shown |-> FALSE, addr |-> "", psrm |-> -1, cod |-> -1,
          codres |-> NoCod, rssi |-> 0, eir |-> NoEir]

\* The outcome of a decoder or handler call: the exception that left it,
\* self.scanned_dev afterwards and what it printed.
Outcome(e, dev, o) == [exc |-> e, dev |-> dev, out |-> o]

\* A slip in the order of the statements: the address is appended before
\* the CoD and the EIR block are decoded
DecodeRecordAppendFirst(f, hasEir, dev) ==
    LET bd_addr == FormatBdAddr(f.bd_addr) IN
    IF AlreadyScanned(bd_addr, dev)
    THEN Outcome("none", dev, NoOut)
    ELSE LET cod == FromBytesLittle(f.cod)
             c == pp_cod(cod)
             o1 == [shown |-> TRUE, addr |-> bd_addr,
                    psrm |-> f.page_scan_repetition_mode, cod |-> cod,
                    codres |-> c, rssi |-> f.rssi, eir |-> NoEir]
         IN  IF c.exc # "none"
             THEN Outcome(c.exc, Append(dev, bd_addr), o1)
             ELSE IF ~hasEir
             THEN Outcome("none", Append(dev, bd_addr), o1)
             ELSE LET e == pp_ext_inquiry_rsp(f.ext_inq_rsp)
                      o2 == [o1 EXCEPT !.eir = e]
                  IN  Outcome(e.exc, Append(dev, bd_addr), o2)

\* The common part of the three decoders after struct.unpack: format the
\* address, drop a known one, print the fields, decode the CoD, walk the
\* EIR block (extended variant only), record the address.
DecodeRecord(f, hasEir, dev) ==
    LET bd_addr == FormatBdAddr(f.bd_addr) IN
    IF AlreadyScanned(bd_addr, dev)
    THEN Outcome("none", dev, NoOut)
    ELSE LET cod == FromBytesLittle(f.cod)
             c == pp_cod(cod)
             o1 == [shown |-> TRUE, addr |-> bd_addr,
                    psrm |-> f.page_scan_repetition_mode, cod |-> cod,
                    codres |-> c, rssi |-> f.rssi, eir |-> NoEir]
         IN  IF c.exc # "none"
             THEN Outcome(c.exc, dev, o1)
             ELSE IF ~hasEir
             THEN Outcome("none", Append(dev, bd_addr), o1)
             ELSE LET e == pp_ext_inquiry_rsp(f.ext_inq_rsp)
                      o2 == [o1 EXCEPT !.eir = e]
                  IN  IF e.exc # "none"
                      THEN Outcome(e.exc, dev, o2)
                      ELSE Outcome("none", Append(dev, bd_addr), o2)

\* struct.unpack('<6sBH3sH', b)
UnpackBasic(b) ==
    [bd_addr |-> Slice(b, 0, 6), page_scan_repetition_mode |-> b[7],
     reserved |-> FromBytesLittle(Slice(b, 7, 9)), cod |-> Slice(b, 9, 12),
     clk_offset |-> FromBytesLittle(Slice(b, 12, 14)), rssi |-> 0,
     ext_inq_rsp |-> <<>>]

\* struct.unpack('<6sBB3sHb', b)
UnpackRssi(b) ==
    [bd_addr |-> Slice(b, 0, 6), page_scan_repetition_mode |-> b[7],
     reserved |-> b[8], cod |-> Slice(b, 8, 11),
     clk_offset |-> FromBytesLittle(Slice(b, 11, 13)),
     rssi |-> SignedByte(b[14]), ext_inq_rsp |-> <<>>]

\* struct.unpack('<6sBB3sHb240s', b)
UnpackExtended(b) ==
    [bd_addr |-> Slice(b, 0, 6), page_scan_repetition_mode |-> b[7],
     reserved |-> b[8], cod |-> Slice(b, 8, 11),
     clk_offset |-> FromBytesLittle(Slice(b, 11, 13)),
     rssi |-> SignedByte(b[14]), ext_inq_rsp |-> Slice(b, 14, 14 + EIR_LEN)]

\* BRScanner.pp_inquiry_result(params)
pp_inquiry_result(params, dev) ==
    IF params = <<>> THEN Outcome("IndexError", dev, NoOut)
    ELSE IF params[1] # 1 THEN Outcome("none", dev, NoOut)
    ELSE IF Len(params) - 1 # SizeBasic
    THEN Outcome("struct.error", dev, NoOut)
    ELSE DecodeRecord(UnpackBasic(SliceFrom(params, 1)), FALSE, dev)

\* BRScanner.pp_inquiry_result_with_rssi(params)
pp_inquiry_result_with_rssi(params, dev) ==
    IF params = <<>> THEN Outcome("IndexError", dev, NoOut)
    ELSE IF params[1] # 1 THEN Outcome("none", dev, NoOut)
    ELSE IF Len(params) - 1 # SizeRssi
    THEN Outcome("struct.error", dev, NoOut)
    ELSE DecodeRecord(UnpackRssi(SliceFrom(params, 1)), FALSE, dev)

\* A slip in the Num_Responses test: only an event without responses is
\* skipped, the first response of several is decoded
PpExtendedInquiryResultFirstOfMany(params, dev) ==
    IF params = <<>> THEN Outcome("IndexError", dev, NoOut)
    ELSE IF params[1] = 0 THEN Outcome("none", dev, NoOut)
    ELSE IF Len(params) - 1 # SizeExtended
    THEN Outcome("struct.error", dev, NoOut)
    ELSE DecodeRecord(UnpackExtended(SliceFrom(params, 1)), TRUE, dev)

\* BRScanner.pp_extended_inquiry_result(params)
pp_extended_inquiry_result(params, dev) ==
    IF params = <<>> THEN Outcome("IndexError", dev, NoOut)
    ELSE IF params[1] # 1 THEN Outcome("none", dev, NoOut)
    ELSE IF Len(params) - 1 # SizeExtended
    THEN Outcome("struct.error", dev, NoOut)
    ELSE DecodeRecord(UnpackExtended(SliceFrom(params, 1)), TRUE, dev)

\* A slip in the last branch: an event code that is none of the three is
\* raised as an error
InquiryResultHandlerStrict(result, dev) ==
    LET event_code == result[1]
        params == SliceFrom(result, 2)
    IN  IF event_code = HCI_Inquiry_Result_evt_code
        THEN pp_inquiry_result(params, dev)
        ELSE IF event_code = HCI_Inquiry_Result_with_RSSI_evt_code
        THEN pp_inquiry_result_with_rssi(params, dev)
        ELSE IF event_code = HCI_Extended_Inquiry_Result_evt_code
        THEN pp_extended_inquiry_result(params, dev)
        ELSE Outcome("ValueError", dev, NoOut)

\* inquiry_result_handler(result), the closure of BRScanner.inquiry.  The
\* name the debug line looks up, HciEventCodes[event_code].name, comes from
\* bthci's table of HCI event codes; the buffers hci.inquiry delivers carry
\* event codes of that table.
inquiry_result_handler(result, dev) ==
    LET event_code == result[1]
        params == SliceFrom(result, 2)
    IN  IF event_code = HCI_Inquiry_Result_evt_code
        THEN pp_inquiry_result(params, dev)
        ELSE IF event_code = HCI_Inquiry_Result_with_RSSI_evt_code
        THEN pp_inquiry_result_with_rssi(params, dev)
        ELSE IF event_code = HCI_Extended_Inquiry_Result_evt_code
        THEN pp_extended_inquiry_result(params, dev)
        ELSE Outcome("none", dev, NoOut)

----------------------------------------------------------------------------
(* The event buffers the controller delivers in the model. *)

\* n octets of value v
Fill(n, v) == [k \in 1..n |-> v]

\* A device address in wire order (AA:BB:CC:DD:EE:FF, 66:55:44:33:22:11)
WireAddrs == { <<255, 238, 221, 204, 187, 170>>, <<17, 34, 51, 68, 85, 102>> }

\* v as n little-endian octets
ToBytesLittle(v, n) == [k \in 1..n |-> Shr(v, 8 * (k - 1)) % 256]

\* Class-of-Device values: 0x5A020C, 0x240404, 0x000A00 (major class 10,
\* not in major_dev_clses), 0x5A020D (format bits 01)
EventCods == { 5898764, 2360324, 2560, 5898765 }

\* An EIR block: the given octets, zero-filled to EIR_LEN
EirBlock(prefix) == prefix \o Fill(EIR_LEN - Len(prefix), 0)

\* EIR blocks: empty; Complete Local Name "AB"; TX power 0xF4; a name with
\* an octet that is not UTF-8, alone and followed by a TX Power Level
\* element; one element filling the block to its last octet, no terminator
EventEirs ==
    { EirBlock(<<>>),
      EirBlock(<<3, 9, 65, 66>>),
      EirBlock(<<2, 10, 244>>),
      EirBlock(<<2, 9, 255>>),
      EirBlock(<<2, 9, 255, 2, 10, 5>>),
      <<239, 9>> \o Fill(238, 65) }

\* An event buffer: event code, parameter length, parameters
EventBuf(code, params) == <<code, Len(params)>> \o params

BasicParams(num_rsp, addr, cod) ==
    <<num_rsp>> \o addr \o <<1>> \o ToBytesLittle(0, 2)
        \o ToBytesLittle(cod, 3) \o ToBytesLittle(0, 2)

RssiParams(num_rsp, addr, cod, rssi) ==
    <<num_rsp>> \o addr \o <<1, 0>> \o ToBytesLittle(cod, 3)
        \o ToBytesLittle(0, 2) \o <<rssi>>

ExtendedParams(num_rsp, addr, cod, rssi, eir) ==
    RssiParams(num_rsp, addr, cod, rssi) \o eir

\* Well-formed events of the three variants
GoodEvents ==
    { EventBuf(HCI_Inquiry_Result_evt_code, BasicParams(1, a, c)) :
        a \in WireAddrs, c \in EventCods }
    \cup
    { EventBuf(HCI_Inquiry_Result_with_RSSI_evt_code,
               RssiParams(1, a, 2360324, 200)) : a \in WireAddrs }
    \cup
    { EventBuf(HCI_Extended_Inquiry_Result_evt_code,
               ExtendedParams(1, a, 5898764, 200, e)) :
        a \in WireAddrs, e \in EventEirs }

\* Events the decoders do not accept: Num_Responses 0 or 2 (each variant), a
\* parameter buffer one octet short or one octet long, no parameters at all,
\* and event codes that are none of the three (0x01, Inquiry Complete, and
\* 0x03, Connection Complete, the latter over the parameters of a well-formed
\* inquiry result)
OddEvents ==
    LET a == <<255, 238, 221, 204, 187, 170>>
        basic == BasicParams(1, a, 5898764)
        ext == ExtendedParams(1, a, 5898764, 200, EirBlock(<<>>))
    IN  { EventBuf(HCI_Inquiry_Result_evt_code, BasicParams(2, a, 5898764)),
          EventBuf(HCI_Inquiry_Result_with_RSSI_evt_code,
                   RssiParams(0, a, 5898764, 200)),
          EventBuf(HCI_Extended_Inquiry_Result_evt_code,
                   ExtendedParams(2, a, 5898764, 200, EirBlock(<<>>))),
          EventBuf(HCI_Extended_Inquiry_Result_evt_code, <<0>>),
          EventBuf(HCI_Inquiry_Result_evt_code,
                   SubSeq(basic, 1, Len(basic) - 1)),
          EventBuf(HCI_Inquiry_Result_with_RSSI_evt_code, basic \o <<0>>),
          EventBuf(HCI_Extended_Inquiry_Result_evt_code,
                   SubSeq(ext, 1, Len(ext) - 1)),
          EventBuf(HCI_Inquiry_Result_evt_code, <<>>),
          EventBuf(1, <<0>>),
          EventBuf(3, basic) }

Events == GoodEvents \cup OddEvents

----------------------------------------------------------------------------
(* The HCI object: the requests the scanner issues, and their completions. *)

\* ControllerErrorCodes.SUCCESS
SUCCESS == 0

\* Completion statuses: success, 0x04 (page timeout)
Statuses == { SUCCESS, 4 }

\* Connection handles the controller may assign
Handles == { 1, 2 }

\* A request issued to the HCI object
Req(op, addr, handle, page) ==
    [op |-> op, addr |-> addr, handle |-> handle, page |-> page]

\* How a remote-name request ends: a completion event (status, remote_name),
\* or an exception raised by the call
NameOutcomes ==
    { [kind |-> "complete", status |-> SUCCESS, remote_name |-> "dev"],
      [kind |-> "complete", status |-> 4, remote_name |-> "dev"],
      [kind |-> "TimeoutError", status |-> -1, remote_name |-> ""],
      [kind |-> "HciRuntimeError", status |-> -1, remote_name |-> ""],
      [kind |-> "KeyboardInterrupt", status |-> -1, remote_name |-> ""] }

----------------------------------------------------------------------------
(* BRScanner.inquiry *)

\* A slip after the try block: the session is not closed
CloseSkipped(log) == log

\* hci.close(), the statement after the try block
Close(log) == Append(log, Req("close", "", -1, -1))

\* except HciRuntimeError: log the error
ExceptHciRuntimeError(log) == log

\* A slip in the except clause: the cancel command is left out
ExceptKeyboardInterruptNoCancel(log) == log

\* except KeyboardInterrupt: hci.inquiry_cancel()
ExceptKeyboardInterrupt(log) == Append(log, Req("inquiry_cancel", "", -1, -1))

\* A slip in the loop body: no except TimeoutError around the request
CaughtInNameLoopNoTimeout(o) == o.kind = "complete"

\* The exceptions of remote_name_request the loop body catches itself
CaughtInNameLoop(o) == o.kind \in { "complete", "TimeoutError" }

\* The name the loop body prints for a request that ended with o
PrintedName(o) ==
    IF o.kind = "complete" /\ o.status = SUCCESS THEN o.remote_name ELSE ""

\* self.remote_name_req_flag and len(self.scanned_dev) != 0
WantsNames(flag, dev) == flag /\ Len(dev) # 0

\* main() runs one method of a fresh BRScanner; nothing is running yet.
InitScanner ==
    /\ pc = "main"
    /\ scanned_dev = <<>>
    /\ hci_log = <<>>
    /\ names = <<>>
    /\ out = NoOut
    /\ exc = "none"
    /\ nev = 0
    /\ event = <<>>
    /\ i = 0
    /\ max_page_num = 0
    /\ conn_handle = 0
    /\ lmp_features7 = 0
    /\ ext_pages = <<>>

lmpVars == <<max_page_num, conn_handle, lmp_features7, ext_pages>>
pureVars == <<cod_in, cod_res, eir_in, eir_res>>

\* inquiry() up to the call of hci.inquiry: reset the seen list, start the
\* inquiry
InquiryStart ==
    /\ pc = "main"
    /\ scanned_dev' = <<>>
    /\ hci_log' = Append(hci_log, Req("inquiry", "", -1, -1))
    /\ pc' = "inquiring"
    /\ UNCHANGED <<names, out, exc, nev, event, i, lmpVars, pureVars>>

\* hci.inquiry delivers one event buffer to inquiry_result_handler. An
\* exception of the handler is caught by neither except clause: it leaves
\* inquiry() with the session not closed.
DeliverEvent ==
    /\ pc = "inquiring"
    /\ nev < MaxEvents
    /\ \E result \in Events :
         LET r == inquiry_result_handler(result, scanned_dev) IN
         /\ event' = result
         /\ scanned_dev' = r.dev
         /\ out' = r.out
         /\ exc' = r.exc
         /\ pc' = IF r.exc = "none" THEN "inquiring" ELSE "raised"
    /\ nev' = nev + 1
    /\ UNCHANGED <<hci_log, names, i, lmpVars, pureVars>>

\* hci.inquiry returns: the inquiry completed. With nothing to name, the
\* session is closed and inquiry() returns.
InquiryComplete ==
    /\ pc = "inquiring"
    /\ IF WantsNames(TRUE, scanned_dev)
       THEN /\ pc' = "naming"
            /\ i' = 1
            /\ UNCHANGED hci_log
       ELSE /\ pc' = "returned"
            /\ hci_log' = Close(hci_log)
            /\ UNCHANGED i
    /\ UNCHANGED <<scanned_dev, names, out, exc, nev, event, lmpVars,
                   pureVars>>

\* hci.inquiry raises HciRuntimeError
InquiryTransportError ==
    /\ pc = "inquiring"
    /\ exc' = "HciRuntimeError"
    /\ hci_log' = Close(ExceptHciRuntimeError(hci_log))
    /\ pc' = "returned"
    /\ UNCHANGED <<scanned_dev, names, out, nev, event, i, lmpVars,
                   pureVars>>

\* KeyboardInterrupt is raised while hci.inquiry runs
InquiryInterrupt ==
    /\ pc = "inquiring"
    /\ exc' = "KeyboardInterrupt"
    /\ hci_log' = Close(ExceptKeyboardInterrupt(hci_log))
    /\ pc' = "returned"
    /\ UNCHANGED <<scanned_dev, names, out, nev, event, i, lmpVars,
                   pureVars>>

\* One iteration of the name loop: the request for scanned_dev[i] and what
\* follows its end o
RemoteNameRequest ==
    /\ pc = "naming"
    /\ i \in 1..Len(scanned_dev)
    /\ \E o \in NameOutcomes :
         LET bd_addr == scanned_dev[i]
             log == Append(hci_log, Req("remote_name_request", bd_addr, -1, -1))
         IN  IF CaughtInNameLoop(o)
             THEN /\ names' = Append(names, [addr |-> bd_addr,
                                             name |-> PrintedName(o),
                                             ended |-> o])
                  /\ i' = i + 1
                  /\ IF i = Len(scanned_dev)
                     THEN pc' = "returned" /\ hci_log' = Close(log)
                     ELSE pc' = "naming" /\ hci_log' = log
                  /\ UNCHANGED exc
             ELSE /\ exc' = o.kind
                  /\ hci_log' =
                       IF o.kind = "KeyboardInterrupt"
                       THEN Close(ExceptKeyboardInterrupt(log))
                       ELSE Close(ExceptHciRuntimeError(log))
                  /\ pc' = "returned"
                  /\ UNCHANGED <<names, i>>
    /\ UNCHANGED <<scanned_dev, out, nev, event, lmpVars, pureVars>>

----------------------------------------------------------------------------
(* BRScanner.scan_lmp_feature *)

\* Values of lmp_features[7] the remote device may report
Features7 == { 0, 127, 128, 255 }

\* The condition of the if statement after the base features are printed:
\*     not True if (lmp_features[7] >> 7) & 0x01 else False
\* which Python reads as (not True) if ... else False.
ExitWithoutExtFeatures(f7) == IF Bit(f7, 7) # 0 THEN ~TRUE ELSE FALSE

\* A slip in the cleanup: the disconnect is issued a second time
DisconnectTwice(log, handle) ==
    Append(Append(log, Req("disconnect", "", handle, -1)),
           Req("disconnect", "", handle, -1))

\* hci.disconnect(conn_complete.conn_handle)
Disconnect(log, handle) == Append(log, Req("disconnect", "", handle, -1))

\* What the failure branch of read_remote_version_information does before
\* sys.exit(1)
VersionFailure(log, handle) == log

\* What the failure branch of read_remote_supported_features does: its
\* logger.error call reads read_remote_ext_features_complete, a local that
\* is assigned only further down, so the call raises UnboundLocalError
\* before the disconnect is reached.
FeaturesFailure(log, handle) == [exc |-> "UnboundLocalError", log |-> log]

inqVars == <<scanned_dev, names, out, nev, event>>

\* A slip after create_connection: its status is not looked at
LmpCreateConnectionNoCheck ==
    /\ pc = "main"
    /\ \E status \in Statuses, h \in Handles :
         /\ hci_log' = Append(hci_log, Req("create_connection", "", -1, -1))
         /\ pc' = "lmp_version"
         /\ IF status # SUCCESS
            THEN UNCHANGED conn_handle
            ELSE conn_handle' = h
    /\ UNCHANGED <<exc, i, max_page_num, lmp_features7, ext_pages, inqVars,
                   pureVars>>

\* hci.create_connection(paddr) and the check of its status
LmpCreateConnection ==
    /\ pc = "main"
    /\ \E status \in Statuses, h \in Handles :
         /\ hci_log' = Append(hci_log, Req("create_connection", "", -1, -1))
         /\ IF status # SUCCESS
            THEN pc' = "raised" /\ exc' = "SystemExit" /\ UNCHANGED conn_handle
            ELSE pc' = "lmp_version" /\ conn_handle' = h /\ UNCHANGED exc
    /\ UNCHANGED <<i, max_page_num, lmp_features7, ext_pages, inqVars,
                   pureVars>>

\* hci.read_remote_version_information(handle) and the check of its status
LmpReadVersion ==
    /\ pc = "lmp_version"
    /\ \E status \in Statuses :
         LET log == Append(hci_log,
                           Req("read_remote_version_information", "",
                               conn_handle, -1))
         IN  IF status # SUCCESS
             THEN /\ hci_log' = VersionFailure(log, conn_handle)
                  /\ pc' = "raised"
                  /\ exc' = "SystemExit"
             ELSE /\ hci_log' = log
                  /\ pc' = "lmp_features"
                  /\ UNCHANGED exc
    /\ UNCHANGED <<i, lmpVars, inqVars, pureVars>>

\* hci.read_remote_supported_features(handle), the check of its status and
\* the test of the extended-features bit
LmpReadFeatures ==
    /\ pc = "lmp_features"
    /\ \E status \in Statuses, f7 \in Features7 :
         LET log == Append(hci_log,
                           Req("read_remote_supported_features", "",
                               conn_handle, -1))
         IN  IF status # SUCCESS
             THEN LET f == FeaturesFailure(log, conn_handle) IN
                  /\ hci_log' = f.log
                  /\ pc' = "raised"
                  /\ exc' = f.exc
                  /\ UNCHANGED lmp_features7
             ELSE /\ lmp_features7' = f7
                  /\ hci_log' = log
                  /\ IF ExitWithoutExtFeatures(f7)
                     THEN pc' = "raised" /\ exc' = "SystemExit"
                     ELSE pc' = "lmp_page0" /\ UNCHANGED exc
    /\ UNCHANGED <<i, max_page_num, conn_handle, ext_pages, inqVars,
                   pureVars>>

\* hci.read_remote_extended_features(handle, 0x00): learn max_page_num. With
\* no page to read, the loop is empty and the connection is closed.
LmpReadExtPage0 ==
    /\ pc = "lmp_page0"
    /\ \E status \in Statuses, n \in 0..MaxPageNum :
         LET log == Append(hci_log,
                           Req("read_remote_extended_features", "",
                               conn_handle, 0))
         IN  IF status # SUCCESS
             THEN /\ hci_log' = Disconnect(log, conn_handle)
                  /\ pc' = "raised"
                  /\ exc' = "SystemExit"
                  /\ UNCHANGED <<max_page_num, i>>
             ELSE /\ max_page_num' = n
                  /\ i' = 1
                  /\ UNCHANGED exc
                  /\ IF n = 0
                     THEN pc' = "returned"
                          /\ hci_log' = Disconnect(log, conn_handle)
                     ELSE pc' = "lmp_pages" /\ hci_log' = log
    /\ UNCHANGED <<conn_handle, lmp_features7, ext_pages, inqVars,
                   pureVars>>

\* What the loop body does with page i: the error line on a non-success
\* status, pp_ext_lmp_features otherwise
PageHandled(page, status) ==
    [page |-> page, status |-> status, printed |-> status = SUCCESS]

\* A slip in the loop body: a page that fails ends the loop
LmpReadExtPageStopOnFailure ==
    /\ pc = "lmp_pages"
    /\ i \in 1..max_page_num
    /\ \E status \in Statuses :
         LET log == Append(hci_log,
                           Req("read_remote_extended_features", "",
                               conn_handle, i))
         IN  /\ i' = i + 1
             /\ ext_pages' = Append(ext_pages, PageHandled(i, status))
             /\ IF i = max_page_num \/ status # SUCCESS
                THEN pc' = "returned" /\ hci_log' = Disconnect(log, conn_handle)
                ELSE pc' = "lmp_pages" /\ hci_log' = log
    /\ UNCHANGED <<exc, max_page_num, conn_handle, lmp_features7, inqVars,
                   pureVars>>

\* One iteration of the page loop; after the last page the connection is
\* closed.
LmpReadExtPage ==
    /\ pc = "lmp_pages"
    /\ i \in 1..max_page_num
    /\ \E status \in Statuses :
         LET log == Append(hci_log,
                           Req("read_remote_extended_features", "",
                               conn_handle, i))
         IN  /\ i' = i + 1
             /\ ext_pages' = Append(ext_pages, PageHandled(i, status))
             /\ IF i = max_page_num
                THEN pc' = "returned" /\ hci_log' = Disconnect(log, conn_handle)
                ELSE pc' = "lmp_pages" /\ hci_log' = log
    /\ UNCHANGED <<exc, max_page_num, conn_handle, lmp_features7, inqVars,
                   pureVars>>

----------------------------------------------------------------------------
(* The scanner: main() runs inquiry() or scan_lmp_feature(). *)

Init ==
    /\ InitScanner
    /\ cod_in = 0 /\ cod_res = NoCod
    /\ eir_in = <<>> /\ eir_res = NoEir

Next ==
    \/ InquiryStart
    \/ DeliverEvent
    \/ InquiryComplete
    \/ InquiryTransportError
    \/ InquiryInterrupt
    \/ RemoteNameRequest
    \/ LmpCreateConnection
    \/ LmpReadVersion
    \/ LmpReadFeatures
    \/ LmpReadExtPage0
    \/ LmpReadExtPage

Spec == Init /\ [][Next]_vars

----------------------------------------------------------------------------
(* pp_cod called on its own, on every value of a family of CoD values. *)

\* Service-class fields (bits 13..23): none, each bit alone, all, 0x2D0
SvcInputs == { 0, 2047, 720 } \cup { Pow2(k) : k \in 0..10 }

\* Format bits x minor-class bits x every major class x service classes,
\* and one value wider than 24 bits
CodInputs ==
    { fmt + 4 * minor + 256 * major + 8192 * svc :
        fmt \in 0..3, minor \in { 0, 3 }, major \in 0..31, svc \in SvcInputs }
    \cup { 16777216 }

InitCod ==
    /\ InitScanner
    /\ cod_in \in CodInputs /\ cod_res = NoCod
    /\ eir_in = <<>> /\ eir_res = NoEir

\* The call pp_cod(cod_in)
CallPpCod ==
    /\ pc = "main"
    /\ cod_res' = pp_cod(cod_in)
    /\ pc' = IF cod_res'.exc = "none" THEN "returned" ELSE "raised"
    /\ exc' = cod_res'.exc
    /\ UNCHANGED <<scanned_dev, hci_log, names, out, nev, event, i, lmpVars,
                   cod_in, eir_in, eir_res>>

SpecCod == InitCod /\ [][CallPpCod]_vars

----------------------------------------------------------------------------
(* pp_ext_inquiry_rsp called on its own, on every block of a family of     *)
(* 240-octet blocks: a free prefix followed by one octet repeated.         *)

\* Octets of the prefix: terminator, small lengths, the UUID-16, local-name
\* and TX-power types, 'A', 0xF4
EirAlphabet == { 0, 1, 2, 3, 9, 10, 65, 244 }

\* The repeated octet: 0 (terminated block), 29 and 238 (blocks with no
\* terminator, walked in elements of 30 and of 239 octets)
EirFills == { 0, 29, 238 }

\* Blocks with a service-class UUID list followed by a TX Power Level
\* element: for each of the three list types (UUIDs of 2, 4, 16 octets), a
\* payload one octet short of a UUID, of one UUID, of one UUID and one
\* octet, and of two UUIDs
UuidEirs ==
    { EirBlock(<<n + 1, t>> \o [k \in 1..n |-> k] \o <<2, 10, 5>>) :
        t \in { COMPLETE_LIST_OF_16_BIT_SERVICE_CLASS_UUIDS },
        n \in { 1, 2, 3, 4 } }
    \cup
    { EirBlock(<<n + 1, t>> \o [k \in 1..n |-> k] \o <<2, 10, 5>>) :
        t \in { COMPLETE_LIST_OF_32_BIT_SERVICE_CLASS_UUIDS },
        n \in { 3, 4, 5, 8 } }
    \cup
    { EirBlock(<<n + 1, t>> \o [k \in 1..n |-> k] \o <<2, 10, 5>>) :
        t \in { COMPLETE_LIST_OF_128_BIT_SERVICE_CLASS_UUIDS },
        n \in { 15, 16, 17, 32 } }

\* and the blocks the events of the inquiry session carry
EirInputs ==
    { p \o Fill(EIR_LEN - Len(p), f) :
        p \in UNION { [1..n -> EirAlphabet] : n \in 0..MaxPrefixLen },
        f \in EirFills }
    \cup EventEirs \cup UuidEirs

InitEir ==
    /\ InitScanner
    /\ cod_in = 0 /\ cod_res = NoCod
    /\ eir_in \in EirInputs /\ eir_res = NoEir

\* The call pp_ext_inquiry_rsp(eir_in)
CallPpExtInquiryRsp ==
    /\ pc = "main"
    /\ eir_res' = pp_ext_inquiry_rsp(eir_in)
    /\ pc' = IF eir_res'.exc = "none" THEN "returned" ELSE "raised"
    /\ exc' = eir_res'.exc
    /\ UNCHANGED <<scanned_dev, hci_log, names, out, nev, event, i, lmpVars,
                   cod_in, cod_res, eir_in>>

SpecEir == InitEir /\ [][CallPpExtInquiryRsp]_vars

----------------------------------------------------------------------------
(* Properties. *)

\* The method has ended, by returning or by an exception leaving it.
Ended == pc \in { "returned", "raised" }

\* The positions of hci_log that hold a request op
ReqsOf(op) == { k \in 1..Len(hci_log) : hci_log[k].op = op }

\* scan_lmp_feature ran and create_connection returned a success status.
LmpConnected == ReqsOf("create_connection") # {} /\ conn_handle \in Handles

\* A disconnect for the connection handle has been issued.
Disconnected ==
    \E k \in ReqsOf("disconnect") : hci_log[k].handle = conn_handle

\* C1: in scan_lmp_feature, once create_connection has returned a success
\* status, a disconnect for that connection handle has been issued when the
\* flow ends, on every exit path.
C1_DisconnectOnEveryExit == (LmpConnected /\ Ended) => Disconnected

\* C1, the exit paths on which the code does issue the disconnect: the
\* failure of page 0 and the end of the page loop.
C1_DisconnectAfterPage0 ==
    (LmpConnected /\ Ended /\ ReqsOf("read_remote_extended_features") # {})
        => Disconnected

\* C7: in scan_lmp_feature, when the base-features read succeeded and bit 7
\* of byte 7 of the base bitmap is unset, no read_remote_extended_features
\* request is issued, page 0 included.
C7_NoExtRequestWithoutExtBit ==
    (ReqsOf("read_remote_extended_features") # {}) => Bit(lmp_features7, 7) = 1

----------------------------------------------------------------------------

\* C3: for every 24-bit CoD value whose bits 0-1 are 00, pp_cod completes
\* without raising, whatever its major device class.
C3_PpCodTotal ==
    (pc # "main" /\ cod_in <= 16777215 /\ cod_in % 4 = 0)
        => cod_res.exc = "none"

\* C4: for every 240-octet EIR block, pp_ext_inquiry_rsp terminates without
\* raising.
C4_EirWalkTotal ==
    (pc # "main" /\ Len(eir_in) = EIR_LEN) => eir_res.exc = "none"

\* C10: the payload of a TX Power Level element is read as a signed 8-bit
\* value: an octet b in 0x80..0xFF is reported as b - 256 dBm, an octet in
\* 0x00..0x7F as b dBm.
C10_TxPowerSigned ==
    pc # "main" =>
        \A k \in 1..Len(eir_res.elems) :
            LET el == eir_res.elems[k] IN
            (el.type = TX_POWER_LEVEL /\ Len(el.payload) = 1)
                => el.shown.val = <<SignedByte(el.payload[1])>>

----------------------------------------------------------------------------
(* Properties of the inquiry session. *)

\* The state right after an event was delivered to the handler
JustDelivered == nev > 0 /\ pc \in { "inquiring", "raised" }

\* The address an inquiry-result event carries, as the decoders format it
EventAddr(result) == FormatBdAddr(Slice(result, 3, 9))

\* addr is one of the addresses of dev
Recorded(addr, dev) == \E k \in 1..Len(dev) : dev[k] = addr

\* No address occurs twice in scanned_dev.
UniqueAddresses ==
    \A j, k \in 1..Len(scanned_dev) :
        scanned_dev[j] = scanned_dev[k] => j = k

\* A step that delivers a well-formed event of one of the three variants
\* leaves scanned_dev as it was when the event's address is already there,
\* and appends it when it is not there and the handler returns.
DedupStep ==
    (nev' = nev + 1 /\ event' \in GoodEvents) =>
        IF Recorded(EventAddr(event'), scanned_dev)
        THEN scanned_dev' = scanned_dev
        ELSE pc' = "inquiring" =>
                 scanned_dev' = Append(scanned_dev, EventAddr(event'))

\* C2: during one inquiry() run, whatever the mix of the three variants,
\* scanned_dev never holds the same address twice: the first event for an
\* address records it, every later event with that address is dropped
\* without changing scanned_dev.
C2_NoDuplicateAddress == []UniqueAddresses /\ [][DedupStep]_vars

\* C2's case: a second event for a recorded address was delivered and
\* dropped.
C2_Witness ==
    /\ pc = "inquiring" /\ nev = 2 /\ event \in GoodEvents
    /\ scanned_dev = <<EventAddr(event)>>
    /\ ~out.shown

\* The requests hci_log' holds beyond those of hci_log
NewReqs == SubSeq(hci_log', Len(hci_log) + 1, Len(hci_log'))

\* KeyboardInterrupt ends inquiry() in this step: the step issues the
\* inquiry-cancel command, and the method returns with the addresses
\* recorded before, unchanged and in the same order.
InterruptStep ==
    (exc' = "KeyboardInterrupt" /\ exc # "KeyboardInterrupt") =>
        /\ SubSeq(hci_log', 1, Len(hci_log)) = hci_log
        /\ \E k \in 1..Len(NewReqs) : NewReqs[k].op = "inquiry_cancel"
        /\ pc' = "returned"
        /\ scanned_dev' = scanned_dev

\* C5: when KeyboardInterrupt arrives during inquiry(), the inquiry-cancel
\* command is issued before inquiry() returns, and scanned_dev is as it was
\* before the cancel.
C5_CancelOnInterrupt == [][InterruptStep]_vars

\* C5's case: inquiry() was interrupted after it had recorded a device.
C5_Witness ==
    /\ pc = "returned" /\ exc = "KeyboardInterrupt"
    /\ Len(scanned_dev) >= 1
    /\ ReqsOf("remote_name_request") = {}

\* The addresses of the remote-name requests issued, in order
NameReqs ==
    LET r == SelectSeq(hci_log, LAMBDA q : q.op = "remote_name_request")
    IN  [k \in 1..Len(r) |-> r[k].addr]

\* The request ended in a timeout or in a non-success status.
NameFailed(o) ==
    o.kind = "TimeoutError" \/ (o.kind = "complete" /\ o.status # SUCCESS)

\* C6: after an inquiry that completed normally with at least one device,
\* one remote-name request is issued per address of scanned_dev, in
\* insertion order; a timeout or a non-success status gives that address an
\* empty name and the requests for the later addresses are still issued.
C6_NamePerAddress ==
    /\ \A k \in 1..Len(NameReqs) :
           k <= Len(scanned_dev) /\ NameReqs[k] = scanned_dev[k]
    /\ \A k \in 1..Len(names) :
           /\ k <= Len(NameReqs) /\ names[k].addr = NameReqs[k]
           /\ NameFailed(names[k].ended) => names[k].name = ""
           /\ ~NameFailed(names[k].ended)
                  => names[k].name = names[k].ended.remote_name
           /\ k < Len(scanned_dev) => (pc = "naming" \/ Len(NameReqs) > k)
    /\ \/ Len(NameReqs) = Len(names)
       \/ /\ Ended /\ exc \in { "HciRuntimeError", "KeyboardInterrupt" }
          /\ Len(NameReqs) = Len(names) + 1
    /\ pc = "naming" => (i = Len(names) + 1 /\ i <= Len(scanned_dev))
    /\ (pc = "returned" /\ exc = "none" /\ Len(scanned_dev) > 0)
           => NameReqs = scanned_dev

\* C6's case: the first request timed out, the second one was still issued
\* and succeeded.
C6_Witness ==
    /\ pc = "returned" /\ exc = "none"
    /\ Len(scanned_dev) = 2 /\ NameReqs = scanned_dev
    /\ names[1].ended.kind = "TimeoutError" /\ names[1].name = ""
    /\ names[2].name = "dev"

\* The event is of one of the three variants, is not skipped for its
\* Num_Responses, and its parameters are not exactly as long as the
\* variant's layout.
WrongLength(result) ==
    LET code == result[1]
        params == SliceFrom(result, 2)
        size == IF code = HCI_Inquiry_Result_evt_code THEN SizeBasic
                ELSE IF code = HCI_Inquiry_Result_with_RSSI_evt_code
                THEN SizeRssi ELSE SizeExtended
    IN  /\ code \in { HCI_Inquiry_Result_evt_code,
                      HCI_Inquiry_Result_with_RSSI_evt_code,
                      HCI_Extended_Inquiry_Result_evt_code }
        /\ (params = <<>> \/ params[1] = 1)
        /\ Len(params) # 1 + size

\* C8: an inquiry-result event whose parameter buffer is not exactly as long
\* as its variant's layout is dropped for that event only: no error leaves
\* the handler and the session goes on.
C8_ShortEventDropped ==
    (JustDelivered /\ WrongLength(event)) => (pc = "inquiring" /\ exc = "none")

\* The basic inquiry-result event of the scenario: wire address
\* FF EE DD CC BB AA, scan-repeat-mode 0x01, reserved 0x0000, CoD 0x5A020C
ScenarioEvent ==
    EventBuf(HCI_Inquiry_Result_evt_code,
             BasicParams(1, <<255, 238, 221, 204, 187, 170>>, 5898764))

\* The scenario's event was decoded and its record printed.
C9_Witness == JustDelivered /\ event = ScenarioEvent /\ out.shown

\* C9 as stated: for the scenario's event the decoder reports address
\* AA:BB:CC:DD:EE:FF, major device class "Audio/Video" (0b00100) and the
\* "Rendering" service class as set.
C9_ScenarioAsStated ==
    C9_Witness =>
        /\ out.addr = "AA:BB:CC:DD:EE:FF"
        /\ out.codres.major_bits = 4
        /\ out.codres.major = "Audio/Video"
        /\ "Rendering" \in out.codres.service

\* C9 as the code decodes it: for the scenario's event the decoder reports
\* address AA:BB:CC:DD:EE:FF, major device class "Phone" (0b00010, bits 8-12
\* of 0x5A020C), and the service classes Telephony, Object Transfer,
\* Capturing and Networking; bit 18 ("Rendering") is not set.
C9_ScenarioDecoded ==
    C9_Witness =>
        /\ out.addr = "AA:BB:CC:DD:EE:FF"
        /\ out.cod = 5898764
        /\ out.codres.exc = "none" /\ out.codres.valid
        /\ out.codres.major_bits = 2
        /\ out.codres.major = "Phone"
        /\ out.codres.service =
               { "Telephony", "Object Transfer", "Capturing", "Networking" }
        /\ "Rendering" \notin out.codres.service

----------------------------------------------------------------------------
(* Properties of the format check of pp_cod and of its callers. *)

\* pp_cod reports every value of CodInputs whose bits 0-1 are not 00 as
\* invalid, prints no service class and no major device class, and returns.
InvalidCodsDecodeNothing ==
    \A c \in CodInputs :
        c % 4 # 0 =>
            LET r == pp_cod(c) IN
            /\ r.exc = "none" /\ ~r.valid
            /\ r.service = {} /\ r.major = "" /\ r.major_bits = -1

\* The record printed last carries a CoD whose bits 0-1 are not 00.
InvalidCodDelivered == JustDelivered /\ out.shown /\ out.cod % 4 # 0

\* C11: for every CoD value whose bits 0-1 are not 00, pp_cod reports the
\* value as invalid and decodes nothing (no service-class flag, no major
\* device class), and it returns normally: the caller goes on with the
\* record's remaining fields and records the address.
C11_InvalidCodSkipped ==
    /\ InvalidCodsDecodeNothing
    /\ InvalidCodDelivered =>
           /\ out.codres.exc = "none" /\ ~out.codres.valid
           /\ out.codres.service = {} /\ out.codres.major = ""
           /\ out.eir.exc = "none" =>
                  /\ pc = "inquiring" /\ exc = "none"
                  /\ Len(scanned_dev) > 0
                  /\ scanned_dev[Len(scanned_dev)] = out.addr
                  /\ out.addr = EventAddr(event)

\* C11's case: an event with CoD 0x5A020D (bits 0-1 = 01) was delivered,
\* its record printed without a decoded CoD, and its address recorded.
C11_Witness ==
    /\ InvalidCodDelivered /\ out.cod = 5898765
    /\ ~out.codres.valid
    /\ pc = "inquiring" /\ scanned_dev = <<out.addr>>

----------------------------------------------------------------------------
(* Properties of scan_lmp_feature's failure branches. *)

\* The flow ended with read_remote_supported_features as its last read: the
\* one end of this kind the code has is the failure branch of that read.
EndedAfterFeaturesRead ==
    /\ Ended
    /\ ReqsOf("read_remote_supported_features") # {}
    /\ ReqsOf("read_remote_extended_features") = {}

\* C12: in scan_lmp_feature, when read_remote_supported_features returns a
\* non-success status, the flow issues a disconnect for the connection
\* handle and then terminates, and no read_remote_extended_features request
\* is issued.
C12_DisconnectOnFeaturesFailure ==
    EndedAfterFeaturesRead =>
        /\ Disconnected
        /\ hci_log[Len(hci_log)].op = "disconnect"
        /\ exc = "SystemExit"

----------------------------------------------------------------------------
(* Properties of the EIR walk. *)

\* C13: an EIR buffer whose first octet is 0 produces no elements: the
\* walker reports an empty response ('None') and returns, whatever the
\* octets after the first one are.
C13_LeadingZeroIsEmpty ==
    (pc # "main" /\ eir_in # <<>> /\ eir_in[1] = 0) =>
        eir_res = [exc |-> "none", none |-> TRUE, elems |-> <<>>]

\* C13's case: the walker returned on a block that starts with 0 and holds
\* non-zero octets after it, up to its last one.
C13_Witness ==
    /\ pc = "returned" /\ Len(eir_in) = EIR_LEN
    /\ eir_in[1] = 0 /\ eir_in[2] # 0 /\ eir_in[EIR_LEN] # 0
    /\ eir_res.none

RECURSIVE WellFormedEir(_, _)
\* buf[pos:] is a run of elements, each lying within the buffer and each
\* local name a valid text, followed by a zero length octet.
WellFormedEir(buf, pos) ==
    /\ pos < Len(buf)
    /\ \/ buf[pos + 1] = 0
       \/ LET length == buf[pos + 1] IN
          /\ pos + 1 + length <= Len(buf)
          /\ buf[pos + 2] \in { SHORTENED_LOCAL_NAME, COMPLETE_LOCAL_NAME }
                => Utf8Decode(SubSeq(buf, pos + 3, pos + 1 + length), <<>>).ok
          /\ WellFormedEir(buf, pos + 1 + length)

RECURSIVE EncodeEir(_)
\* The octets of a run of elements: length, type, payload of each.
EncodeEir(elems) ==
    IF elems = <<>> THEN <<>>
    ELSE <<Len(elems[1].payload) + 1, elems[1].type>> \o elems[1].payload
             \o EncodeEir(Tail(elems))

\* The block of the scenario: 03 09 'A' 'B' 00 ...
ScenarioEir == EirBlock(<<3, 9, 65, 66>>)

\* C14: for an EIR buffer that holds well-formed elements followed by a zero
\* length octet, the walker yields each element once, in buffer order, with
\* type = the octet after the length and payload = the following length-1
\* octets, and stops at the terminator: the yielded elements, written back
\* as length, type, payload, are the buffer up to the terminator.  The block
\* 03 09 'A' 'B' 00... yields one element, Complete Local Name, text "AB".
C14_WalkYieldsElements ==
    (pc # "main" /\ WellFormedEir(eir_in, 0)) =>
        /\ eir_res.exc = "none"
        /\ LET enc == EncodeEir(eir_res.elems) IN
           /\ Len(enc) < Len(eir_in)
           /\ SubSeq(eir_in, 1, Len(enc)) = enc
           /\ eir_in[Len(enc) + 1] = 0
        /\ \A k \in 1..Len(eir_res.elems) :
               LET el == eir_res.elems[k] IN
               /\ el.length = Len(el.payload) + 1
               /\ el.type \in { SHORTENED_LOCAL_NAME, COMPLETE_LOCAL_NAME }
                      => el.shown.kind = "name"
        /\ eir_in = ScenarioEir =>
               eir_res.elems =
                   << [type |-> COMPLETE_LOCAL_NAME, length |-> 3,
                       payload |-> <<65, 66>>,
                       shown |-> EirShown("name", <<>>, <<65, 66>>)] >>

\* C14's case: the walker returned on the scenario's block.
C14_Witness ==
    /\ pc = "returned" /\ eir_in = ScenarioEir
    /\ Len(eir_res.elems) = 1 /\ eir_res.elems[1].shown.val = <<65, 66>>

\* C14, a block of two elements, 01 09 and 01 00: an empty Complete Local
\* Name and an element of type 0x00 without payload were yielded in this
\* order.
C14_TwoElements ==
    /\ pc = "returned" /\ SubSeq(eir_in, 1, 5) = <<1, 9, 1, 0, 0>>
    /\ Len(eir_res.elems) = 2
    /\ eir_res.elems[1].type = 9 /\ eir_res.elems[2].type = 0

----------------------------------------------------------------------------
(* Properties of the order of scan_lmp_feature's requests. *)

\* scan_lmp_feature ran and create_connection returned a non-success status.
ConnectFailed == ReqsOf("create_connection") # {} /\ conn_handle \notin Handles

\* C15: in scan_lmp_feature, when create_connection returns a non-success
\* status the flow stops there: no read-remote-version, read-remote-features,
\* read-remote-extended-features or disconnect request is issued afterwards.
C15_StopOnConnectFailure ==
    ConnectFailed =>
        /\ pc = "raised" /\ exc = "SystemExit"
        /\ Len(hci_log) = 1 /\ hci_log[1].op = "create_connection"

\* C15's case: the connection failed and the flow ended.
C15_Witness == ConnectFailed /\ Ended /\ Len(hci_log) = 1

\* The pages of the read_remote_extended_features requests issued, in order
ExtPageReqs ==
    LET r == SelectSeq(hci_log,
                       LAMBDA q : q.op = "read_remote_extended_features")
    IN  [k \in 1..Len(r) |-> r[k].page]

\* C16: when the page-0 request succeeds with max_page_num = N, the flow
\* requests each page 1..N once, in ascending order; a non-success status on
\* page i does not stop the loop: pages i+1..N are still requested and the
\* disconnect is issued after page N.
C16_AllPagesRequested ==
    /\ \A k \in 1..Len(ExtPageReqs) : ExtPageReqs[k] = k - 1
    /\ ext_pages # <<>> => Len(ext_pages) = Len(ExtPageReqs) - 1
    /\ \A k \in 1..Len(ext_pages) :
           /\ ext_pages[k].page = k /\ k <= max_page_num
           /\ ext_pages[k].printed <=> ext_pages[k].status = SUCCESS
    /\ pc = "lmp_pages" =>
           /\ i = Len(ext_pages) + 1 /\ i <= max_page_num
           /\ ReqsOf("disconnect") = {}
    /\ (pc = "returned" /\ ExtPageReqs # <<>>) =>
           /\ Len(ExtPageReqs) = max_page_num + 1
           /\ Len(ext_pages) = max_page_num
           /\ ReqsOf("disconnect") = { Len(hci_log) }
           /\ hci_log[Len(hci_log)].handle = conn_handle

\* C16's case: the extended-features bit was set, page 0 announced two
\* pages, page 1 failed, page 2 was still requested and printed, and the
\* connection was closed.
C16_Witness ==
    /\ pc = "returned" /\ Bit(lmp_features7, 7) = 1 /\ max_page_num = 2
    /\ Len(ext_pages) = 2
    /\ ext_pages[1].status # SUCCESS /\ ext_pages[2].printed
    /\ Disconnected

\* The place of a request in the fixed order: create_connection,
\* read_remote_version_information, read_remote_supported_features,
\* read_remote_extended_features(0), (1), (2), ...
LmpRank(q) ==
    CASE q.op = "create_connection" -> 1
      [] q.op = "read_remote_version_information" -> 2
      [] q.op = "read_remote_supported_features" -> 3
      [] q.op = "read_remote_extended_features" -> 4 + q.page
      [] OTHER -> 0

\* scan_lmp_feature is the method that runs.
LmpRunning == hci_log # <<>> /\ hci_log[1].op = "create_connection"

\* C17: in every run of scan_lmp_feature the requests form a prefix of the
\* fixed order create_connection, read_remote_version_information,
\* read_remote_supported_features, read_remote_extended_features(0),
\* read_remote_extended_features(1..N), closed by at most one disconnect:
\* no step is repeated or revisited and no request follows the disconnect.
C17_LinearOrder ==
    LmpRunning =>
        \A k \in 1..Len(hci_log) :
            LET q == hci_log[k] IN
            IF q.op = "disconnect"
            THEN k = Len(hci_log) /\ Ended /\ q.handle = conn_handle
            ELSE /\ LmpRank(q) = k
                 /\ k > 1 => q.handle = conn_handle
                 /\ q.page >= 1 => q.page <= max_page_num

\* C17's case: a complete run with two extended pages.
C17_Witness ==
    /\ LmpRunning /\ pc = "returned" /\ max_page_num = 2
    /\ Len(hci_log) = 7 /\ hci_log[7].op = "disconnect"

----------------------------------------------------------------------------
(* Properties of the end of inquiry(). *)

\* The exceptions the except clauses of inquiry() handle
Handled == { "HciRuntimeError", "KeyboardInterrupt" }

\* No remote-name request is issued while the inquiry runs; after a
\* transport failure or a cancel, inquiry() has returned with the session
\* closed, by one close that is the last request.
ClosedAfterFailure ==
    /\ pc = "inquiring" => NameReqs = <<>>
    /\ exc \in Handled =>
           /\ pc = "returned"
           /\ ReqsOf("close") = { Len(hci_log) }

\* The step in which a transport failure or a cancel occurs issues no
\* remote-name request other than the one that failed, prints no name and
\* returns; no later step issues a request.
FailureStep ==
    /\ (exc' \in Handled /\ exc \notin Handled) =>
           /\ pc' = "returned" /\ names' = names
           /\ SubSeq(hci_log', 1, Len(hci_log)) = hci_log
           /\ \A k \in 1..Len(NewReqs) :
                  NewReqs[k].op = "remote_name_request"
                      => (k = 1 /\ pc = "naming")
    /\ exc \in Handled => hci_log' = hci_log

\* C18: remote-name requests are issued only after the inquiry completed
\* normally: once a transport failure (HciRuntimeError) or a cancel
\* (KeyboardInterrupt) has occurred in inquiry(), no further remote-name
\* request is issued, and the session is closed before inquiry() returns.
C18_NoNamesAfterFailure == []ClosedAfterFailure /\ [][FailureStep]_vars

\* C18's case: the transport failed during the inquiry, after a device was
\* recorded; inquiry() returned without a remote-name request.
C18_Witness ==
    /\ pc = "returned" /\ exc = "HciRuntimeError"
    /\ Len(scanned_dev) >= 1 /\ NameReqs = <<>>
    /\ hci_log[Len(hci_log)].op = "close"

----------------------------------------------------------------------------
(* Properties of the events the handler does not decode. *)

\* The three recognized inquiry-result event codes
InquiryResultCodes ==
    { HCI_Inquiry_Result_evt_code, HCI_Inquiry_Result_with_RSSI_evt_code,
      HCI_Extended_Inquiry_Result_evt_code }

\* An inquiry-result event whose Num_Responses octet is not 1
NumRspNotOne(result) ==
    /\ Len(result) >= 3
    /\ result[1] \in InquiryResultCodes
    /\ result[3] # 1

\* A step that delivers such an event prints no record, leaves scanned_dev
\* as it was, and the inquiry goes on.
SkipStep ==
    (nev' = nev + 1 /\ NumRspNotOne(event')) =>
        /\ scanned_dev' = scanned_dev
        /\ out' = NoOut
        /\ pc' = "inquiring" /\ exc' = exc

\* C19: an inquiry-result event of any of the three variants whose
\* Num_Responses octet is not exactly 1 (0, or 2 and above) is skipped:
\* nothing is decoded from it, scanned_dev is left unchanged, and the
\* session continues with the next event.
C19_NumResponsesNotOneSkipped == [][SkipStep]_vars

\* C19's case: after a device was recorded, an extended inquiry result with
\* Num_Responses = 2 was delivered and skipped.
C19_Witness ==
    /\ JustDelivered /\ NumRspNotOne(event) /\ event[3] = 2
    /\ event[1] = HCI_Extended_Inquiry_Result_evt_code
    /\ pc = "inquiring" /\ nev = 2 /\ Len(scanned_dev) = 1

\* A step that delivers an event whose code is none of the three prints no
\* record, leaves scanned_dev as it was, raises nothing, and the inquiry
\* goes on.
DiscardStep ==
    (nev' = nev + 1 /\ event'[1] \notin InquiryResultCodes) =>
        /\ scanned_dev' = scanned_dev
        /\ out' = NoOut
        /\ pc' = "inquiring" /\ exc' = "none"

\* C20: an event buffer whose first octet is not one of the three
\* recognized inquiry-result event codes is logged and discarded without
\* being fatal: no decoder is invoked, scanned_dev is unchanged, no error
\* escapes the handler, and later events are still processed.
C20_UnknownEventDiscarded ==
    /\ [][DiscardStep]_vars
    /\ [](JustDelivered /\ event[1] \notin InquiryResultCodes
              => pc = "inquiring" /\ exc = "none" /\ ~out.shown)

\* C20's case: after a device was recorded, an event with code 0x03 that
\* carries the parameters of a well-formed inquiry result was delivered and
\* discarded; the inquiry goes on.
C20_Witness ==
    /\ JustDelivered /\ event[1] = 3 /\ Len(event) = 2 + 1 + SizeBasic
    /\ pc = "inquiring" /\ nev = 2 /\ Len(scanned_dev) = 1 /\ ~out.shown

----------------------------------------------------------------------------
(* Properties of the service-class UUID list elements. *)

\* The octets of one UUID of a list of type t (0: t is no list type)
UuidWidth(t) ==
    CASE t = COMPLETE_LIST_OF_16_BIT_SERVICE_CLASS_UUIDS -> 2
      [] t = COMPLETE_LIST_OF_32_BIT_SERVICE_CLASS_UUIDS -> 4
      [] t = COMPLETE_LIST_OF_128_BIT_SERVICE_CLASS_UUIDS -> 16
      [] OTHER -> 0

\* el is a UUID list whose payload length is not a multiple of its width.
BadUuidList(el) ==
    UuidWidth(el.type) # 0 /\ Len(el.payload) % UuidWidth(el.type) # 0

\* The walk went past every element of a well-formed block: it returned and
\* the elements it yielded, written back, are the block up to the terminator.
WalkedToTerminator ==
    /\ eir_res.exc = "none"
    /\ LET enc == EncodeEir(eir_res.elems) IN
       /\ Len(enc) < Len(eir_in)
       /\ SubSeq(eir_in, 1, Len(enc)) = enc
       /\ eir_in[Len(enc) + 1] = 0

\* C21: for a complete-service-class-UUID-list element of 16-, 32- or
\* 128-bit type whose payload length is not a multiple of 2, 4 or 16 octets
\* respectively, the element is reported as invalid and none of its UUIDs is
\* decoded, and the walk continues with the element that starts right after
\* it (cursor advanced by 1 + length) instead of aborting.
C21_BadUuidListInvalid ==
    (pc # "main" /\ WellFormedEir(eir_in, 0)) =>
        /\ WalkedToTerminator
        /\ \A k \in 1..Len(eir_res.elems) :
               BadUuidList(eir_res.elems[k]) =>
                   /\ eir_res.elems[k].shown.kind = "invalid"
                   /\ eir_res.elems[k].shown.uuids = <<>>

\* C21, the part the code keeps: a list whose payload is at least one UUID
\* long and not a multiple of the width is reported as invalid, a shorter
\* payload is reported as an empty list ('None'); no UUID is decoded from
\* either and the walk goes on to the terminator.
C21_BadUuidListSkipped ==
    (pc # "main" /\ WellFormedEir(eir_in, 0)) =>
        /\ WalkedToTerminator
        /\ \A k \in 1..Len(eir_res.elems) :
               LET el == eir_res.elems[k] IN
               BadUuidList(el) =>
                   /\ el.shown.uuids = <<>>
                   /\ el.shown.kind =
                          IF Len(el.payload) >= UuidWidth(el.type)
                          THEN "invalid" ELSE "none"

\* C21's case: a 16-bit list with a payload of 3 octets was reported as
\* invalid and the TX Power Level element after it was yielded.
C21_InvalidThenNext ==
    /\ pc = "returned" /\ Len(eir_res.elems) = 2
    /\ eir_res.elems[1].type = COMPLETE_LIST_OF_16_BIT_SERVICE_CLASS_UUIDS
    /\ Len(eir_res.elems[1].payload) = 3
    /\ eir_res.elems[1].shown.kind = "invalid"
    /\ eir_res.elems[2].type = TX_POWER_LEVEL

----------------------------------------------------------------------------
(* Properties of a record whose decoding raises. *)

RECURSIVE BadNameAt(_, _)
\* buf[pos:] leads, element by element, to a shortened or complete local
\* name whose payload is not valid text.
BadNameAt(buf, pos) ==
    /\ pos < Len(buf)
    /\ buf[pos + 1] # 0
    /\ pos + 1 + buf[pos + 1] <= Len(buf)
    /\ \/ /\ buf[pos + 2] \in { SHORTENED_LOCAL_NAME, COMPLETE_LOCAL_NAME }
          /\ ~Utf8Decode(SubSeq(buf, pos + 3, pos + 1 + buf[pos + 1]),
                         <<>>).ok
       \/ BadNameAt(buf, pos + 1 + buf[pos + 1])

\* A full-size extended inquiry result with one response
FullExtendedEvent(result) ==
    /\ Len(result) = 2 + 1 + SizeExtended
    /\ result[1] = HCI_Extended_Inquiry_Result_evt_code
    /\ result[3] = 1

\* An extended inquiry result whose EIR block holds a local name that is
\* not valid text
BadNameEvent(result) ==
    FullExtendedEvent(result) /\ BadNameAt(SliceFrom(result, 17), 0)

\* C22: a shortened or complete local-name EIR element whose payload is not
\* valid text is an error for that element only: the elements after it in
\* the same buffer are still walked, the error does not escape to the
\* session, and the device's address is still recorded in scanned_dev.
C22_BadNameScoped ==
    (JustDelivered /\ BadNameEvent(event)) =>
        /\ pc = "inquiring" /\ exc = "none"
        /\ Recorded(EventAddr(event), scanned_dev)
        /\ out.shown => (out.eir.exc = "none" /\ out.eir.elems # <<>>)

\* A step changes scanned_dev only by appending, at its end, the address of
\* the event it delivers; it does so only when that address was not there,
\* the event is a full-size record with one response, and the decoding of
\* the record (CoD, and EIR block if any) ran to completion without raising.
GrowStep ==
    \/ scanned_dev' = scanned_dev
    \/ /\ nev' = nev + 1
       /\ event'[1] \in InquiryResultCodes /\ event'[3] = 1
       /\ ~Recorded(EventAddr(event'), scanned_dev)
       /\ scanned_dev' = Append(scanned_dev, EventAddr(event'))
       /\ out'.shown /\ out'.addr = EventAddr(event')
       /\ out'.codres.exc = "none" /\ out'.eir.exc = "none"
       /\ FullExtendedEvent(event') =>
              (out'.eir.none \/ out'.eir.elems # <<>>)
       /\ exc' = "none" /\ pc' = "inquiring"

\* scanned_dev is empty until an event is delivered; the remote-name
\* requests go to the addresses of scanned_dev, in its order, and none is
\* issued once the decoding of an event has raised.
NamedAreRecorded ==
    /\ nev = 0 => scanned_dev = <<>>
    /\ \A k \in 1..Len(NameReqs) :
           k <= Len(scanned_dev) /\ NameReqs[k] = scanned_dev[k]
    /\ pc = "raised" => NameReqs = <<>>

\* C23: within one inquiry() run scanned_dev starts empty and only grows, by
\* exactly one address appended at the end of a fully processed event; an
\* event that is skipped, is a duplicate, or whose decoding raises part-way
\* (CoD or EIR) leaves scanned_dev exactly as it was, so every address later
\* sent a remote-name request belongs to a record that was decoded to
\* completion in this run.
C23_RecordedMeansDecoded == []NamedAreRecorded /\ [][GrowStep]_vars

\* C23's case: after one device was recorded, the decoding of an event for
\* another address raised part-way; scanned_dev is as it was.
C23_Witness ==
    /\ pc = "raised" /\ nev = 2 /\ out.shown
    /\ exc \in { "KeyError", "UnicodeDecodeError", "IndexError" }
    /\ Len(scanned_dev) = 1 /\ scanned_dev[1] # out.addr

====
